---- MODULE Spec2Model ----
(***************************************************************************)
(* Model of the transformer (src/app.js): events are read from NSQ,        *)
(* validated, enriched through four chained lookups against the            *)
(* BrainSpark API and indexed into Elasticsearch.                          *)
(*                                                                         *)
(* JavaScript values are tagged records [t |-> tag, v |-> payload]:        *)
(*   "undefined", "null"      v = <<>>                                     *)
(*   "str"                    v = the string as a sequence of characters   *)
(*   "num"                    v = the numeric literal as characters        *)
(*   "arr"                    v = the sequence of the elements             *)
(*   "obj"                    v = a function from the own keys to values   *)
(***************************************************************************)
EXTENDS Integers, Sequences, FiniteSets, TLC

VARIABLES
    vMsg,        \* validator harness: the decoded value handed to isIndexableMessage
    vResult,     \* validator harness: "pending", "accepted" or "rejected"
    lType,       \* lookup harness: the type getDetails is called with
    lId,         \* lookup harness: the id getDetails is called with
    lPromise,    \* lookup harness: the promise getDetails returned ("none" before the call)
    lCalls,      \* lookup harness: the requests sent to the BrainSpark API
    lResponse,   \* lookup harness: what the request's callback was called with
    lOutcome,    \* lookup harness: how the promise settled
    delivered,   \* the number of NSQ messages the reader has emitted
    crashed,     \* the process was terminated by an uncaught exception
    body,        \* per message: the payload (msg.body)
    pc,          \* per message: "queued", "threw", "dropped", "hydrating", "indexing"
    fullMessage, \* per message: the decoded event, enriched in place
    pending,     \* per message: the promises of getDetails that are not settled yet
    invoked,     \* per message: the calls of getDetails, in order
    calls,       \* per message: the requests sent to the BrainSpark API, in order
    outcomes,    \* per message: how each call of getDetails ended, in order
    acked,       \* per message: the number of calls of msg.finish()
    writes,      \* per message: the calls of elasticClient.create, in order
    wres         \* per message: the errors the callbacks of create logged

validatorVars == <<vMsg, vResult>>
lookupVars == <<lType, lId, lPromise, lCalls, lResponse, lOutcome>>
pipelineVars ==
    <<delivered, crashed, body, pc, fullMessage, pending, invoked, calls, outcomes, acked,
      writes, wres>>
vars == <<validatorVars, lookupVars, pipelineVars>>

-----------------------------------------------------------------------------
(* JavaScript values *)

Undefined == [t |-> "undefined", v |-> <<>>]
Null == [t |-> "null", v |-> <<>>]
Str(s) == [t |-> "str", v |-> s]
Num(s) == [t |-> "num", v |-> s]
Arr(s) == [t |-> "arr", v |-> s]
Obj(f) == [t |-> "obj", v |-> f]

\* x[k]: a property read; a key the value does not own reads as undefined
Get(x, k) == IF x.t = "obj" /\ k \in DOMAIN x.v THEN x.v[k] ELSE Undefined

\* x[k] = val: a property write on an object
Put(x, k, val) == Obj([j \in (DOMAIN x.v) \cup {k} |-> IF j = k THEN val ELSE x.v[j]])

\* !x
Falsy(x) ==
    \/ x.t \in {"undefined", "null"}
    \/ x.t = "str" /\ x.v = <<>>
    \/ x.t = "num" /\ x.v = <<"0">>

\* typeof x
TypeOf(x) ==
    CASE x.t = "undefined" -> "undefined"
      [] x.t = "str" -> "string"
      [] x.t = "num" -> "number"
      [] OTHER -> "object"

\* Object.keys(x).length
KeyCount(x) ==
    CASE x.t = "obj" -> Cardinality(DOMAIN x.v)
      [] x.t = "arr" -> Len(x.v)
      [] OTHER -> 0

-----------------------------------------------------------------------------
(* Default configuration *)

config ==
    [ http |-> [timeout |-> 10000],
      msg |->
        [ keycount |-> 7,
          schema |->
            [ type |-> "object",
              properties |->
                [ id |-> [type |-> "string", format |-> "", required |-> TRUE],
                  attempt_id |-> [type |-> "string", format |-> "", required |-> TRUE],
                  progress |-> [type |-> "number", format |-> "", required |-> TRUE],
                  score |-> [type |-> "number", format |-> "", required |-> TRUE],
                  timestamp |-> [type |-> "string", format |-> "date-time", required |-> TRUE],
                  type |-> [type |-> "string", format |-> "", required |-> TRUE],
                  user_id |-> [type |-> "string", format |-> "", required |-> TRUE] ] ] ],
      brainspark |->
        [ method |->
            [ attempt |-> "Participation.GetAttempt",
              course |-> "Content.GetCourse",
              trainee |-> "Account.GetUser",
              user |-> "Account.GetUser" ] ],
      elastic |-> [type |-> "event", indexprefix |-> <<"e", "v", "e", "n", "t", "s", "-">>] ]

-----------------------------------------------------------------------------
(* validate(msg, schema) of the jsonschema package, for the attributes the *)
(* configured schema uses: type, properties, required (draft-03 boolean)   *)
(* and format.                                                             *)

IsDigit(c) == c \in {"0", "1", "2", "3", "4", "5", "6", "7", "8", "9"}

\* the number of digits s carries from position i on
RECURSIVE DigitRun(_, _)
DigitRun(s, i) == IF i <= Len(s) /\ IsDigit(s[i]) THEN 1 + DigitRun(s, i + 1) ELSE 0

\* (60|[0-5][0-9])
SixtyOrLess(a, b) == (a = "6" /\ b = "0") \/ (a \in {"0", "1", "2", "3", "4", "5"} /\ IsDigit(b))

\* ([zZ]|[+-]([0-5][0-9]):(60|[0-5][0-9]))$
ZoneMatches(z) ==
    \/ Len(z) = 1 /\ z[1] \in {"z", "Z"}
    \/ /\ Len(z) = 6
       /\ z[1] \in {"+", "-"}
       /\ z[2] \in {"0", "1", "2", "3", "4", "5"} /\ IsDigit(z[3])
       /\ z[4] = ":"
       /\ SixtyOrLess(z[5], z[6])

\* the package's regular expression for the format date-time:
\* ^\d{4}-(?:0[0-9]{1}|1[0-2]{1})-(3[01]|0[1-9]|[12][0-9])[tT ]
\*  (2[0-4]|[01][0-9]):([0-5][0-9]):(60|[0-5][0-9])(\.\d+)?(zone)$
DateTimeMatches(s) ==
    /\ Len(s) >= 20
    /\ \A i \in 1..4 : IsDigit(s[i])
    /\ s[5] = "-"
    /\ \/ s[6] = "0" /\ IsDigit(s[7])
       \/ s[6] = "1" /\ s[7] \in {"0", "1", "2"}
    /\ s[8] = "-"
    /\ \/ s[9] = "3" /\ s[10] \in {"0", "1"}
       \/ s[9] = "0" /\ IsDigit(s[10]) /\ s[10] # "0"
       \/ s[9] \in {"1", "2"} /\ IsDigit(s[10])
    /\ s[11] \in {"t", "T", " "}
    /\ \/ s[12] = "2" /\ s[13] \in {"0", "1", "2", "3", "4"}
       \/ s[12] \in {"0", "1"} /\ IsDigit(s[13])
    /\ s[14] = ":"
    /\ s[15] \in {"0", "1", "2", "3", "4", "5"} /\ IsDigit(s[16])
    /\ s[17] = ":"
    /\ SixtyOrLess(s[18], s[19])
    /\ LET frac == IF s[20] = "." THEN DigitRun(s, 21) ELSE 0
           zone == IF s[20] = "." THEN SubSeq(s, 21 + frac, Len(s)) ELSE SubSeq(s, 20, Len(s))
       IN  /\ s[20] = "." => frac >= 1
           /\ ZoneMatches(zone)

\* helpers.isFormat: a format constrains strings only
IsFormat(x, format) ==
    IF x.t = "str" /\ format = "date-time" THEN DateTimeMatches(x.v) ELSE TRUE

\* the type attribute
TestType(x, type) ==
    CASE type = "string" -> x.t = "str"
      [] type = "number" -> x.t = "num"
      [] type = "object" -> x.t = "obj"
      [] OTHER -> FALSE

\* a schema whose required attribute is not looked at
PropertyValid_RequiredIgnored(x, ps) ==
    IF x = Undefined
    THEN TRUE
    ELSE TestType(x, ps.type) /\ IsFormat(x, ps.format)

\* one property against its schema: required, type, format
PropertyValid(x, ps) ==
    IF x = Undefined
    THEN ~ps.required
    ELSE TestType(x, ps.type) /\ IsFormat(x, ps.format)

\* validate(msg, schema).valid
validate(x, schema) ==
    /\ TestType(x, schema.type)
    /\ \A p \in DOMAIN schema.properties : PropertyValid(Get(x, p), schema.properties[p])

TypeFOO == <<"F", "O", "O">>

\* the key-count check with >= for >
isIndexableMessage_KeycountOffByOne(msg) ==
    IF TypeOf(msg) # "object" \/ msg = Null THEN FALSE
    ELSE IF KeyCount(msg) >= config.msg.keycount THEN FALSE
    ELSE IF ~validate(msg, config.msg.schema) THEN FALSE
    ELSE IF Get(msg, "type") = Str(TypeFOO) THEN FALSE
    ELSE TRUE

isIndexableMessage(msg) ==
    IF TypeOf(msg) # "object" \/ msg = Null THEN FALSE
    ELSE IF KeyCount(msg) > config.msg.keycount THEN FALSE
    ELSE IF ~validate(msg, config.msg.schema) THEN FALSE
    ELSE IF Get(msg, "type") = Str(TypeFOO) THEN FALSE
    ELSE TRUE

-----------------------------------------------------------------------------
(* Decoded values the validator is exercised on *)

Date1 == <<"2", "0", "1", "8", "-", "0", "1", "-", "1", "6">>
Time1 == <<"1", "4", ":", "0", "9", ":", "5", "1">>
\* 2018-01-16T14:09:51Z
TsZulu == Date1 \o <<"T">> \o Time1 \o <<"Z">>
\* 2018-01-16T14:09:51.655-07:00
TsOffset == Date1 \o <<"T">> \o Time1 \o <<".", "6", "5", "5", "-", "0", "7", ":", "0", "0">>
\* 2018-01-16t14:09:51z
TsLower == Date1 \o <<"t">> \o Time1 \o <<"z">>
\* 2018-01-16 (a date, no time)
TsDateOnly == Date1
\* 2018-01-16T14:09:51 (no zone)
TsNoZone == Date1 \o <<"T">> \o Time1
\* 2018-13-16T14:09:51Z (month 13)
TsMonth13 == <<"2", "0", "1", "8", "-", "1", "3", "-", "1", "6", "T">> \o Time1 \o <<"Z">>
\* 2018-01-16T14:09:51.Z (a fraction without digits)
TsEmptyFrac == Date1 \o <<"T">> \o Time1 \o <<".", "Z">>
\* Bad
TsBad == <<"B", "a", "d">>

Absent == [t |-> "absent", v |-> <<>>]

\* the object whose keys are the keys of c that are not absent
MkObj(c) == Obj([k \in {j \in DOMAIN c : c[j] # Absent} |-> c[k]])

IdChoice == {Absent, Str(<<"e", "1">>), Num(<<"1">>)}
AttemptIdChoice == {Absent, Str(<<"a", "1">>), Str(<<>>), Null}
NumberChoice == {Absent, Num(<<"0", ".", "6", "3">>), Str(<<"0", ".", "6", "3">>)}
TimestampChoice ==
    {Absent, Num(<<"1">>)} \cup
    {Str(s) : s \in {TsZulu, TsOffset, TsLower, TsDateOnly, TsNoZone, TsMonth13, TsEmptyFrac, TsBad}}
TypeChoice == {Absent, Str(<<"P", "R", "O", "G", "R", "E", "S", "S">>), Str(TypeFOO), Num(<<"1">>)}
UserIdChoice == {Absent, Str(<<"u", "1">>), Str(<<>>)}
ExtraChoice == {Absent, Str(TsBad)}

ObjectMessages ==
    { MkObj([id |-> a, attempt_id |-> b, progress |-> c, score |-> d, timestamp |-> e,
             type |-> f, user_id |-> g, bad_key |-> h]) :
        a \in IdChoice, b \in AttemptIdChoice, c \in NumberChoice, d \in NumberChoice,
        e \in TimestampChoice, f \in TypeChoice, g \in UserIdChoice, h \in ExtraChoice }

OtherMessages ==
    { Null, Num(<<"4", "2">>), Str(TsZulu), Arr(<<>>), Arr(<<Num(<<"1">>)>>),
      Arr([i \in 1..8 |-> Num(<<"1">>)]) }

Messages == ObjectMessages \cup OtherMessages

-----------------------------------------------------------------------------
(* getDetails(type, id) *)

Types == <<"attempt", "course", "trainee", "user">>

\* the options of the request getDetails sends: the timeout and, of the json,
\* the method and the params (the url, the headers, the protocol version and
\* the random correlation id are the same for every call or never read)
RequestOptions(type, id) ==
    [ timeout |-> config.http.timeout,
      json |-> [method |-> config.brainspark.method[type], params |-> [id |-> id]] ]

\* the guard id === undefined for !id
getDetails_UndefinedOnly(type, id) ==
    IF id = Undefined
    THEN [promise |-> [type |-> type, id |-> id, state |-> "resolved"], requests |-> <<>>]
    ELSE [promise |-> [type |-> type, id |-> id, state |-> "waiting"],
          requests |-> <<RequestOptions(type, id)>>]

\* getDetails(type, id): the promise it returns and the requests it sends. With
\* a falsy id the promise is resolved with null already and nothing is sent;
\* else the request's callback settles the promise
getDetails(type, id) ==
    IF Falsy(id)
    THEN [promise |-> [type |-> type, id |-> id, state |-> "resolved"], requests |-> <<>>]
    ELSE [promise |-> [type |-> type, id |-> id, state |-> "waiting"],
          requests |-> <<RequestOptions(type, id)>>]

\* what request hands to its callback: an error and no response, or a response
\* with its status code and its parsed body
ErrorResponse(code) == [error |-> code, response |-> FALSE, statusCode |-> 0, body |-> Undefined]
HttpResponse(status, b) == [error |-> "", response |-> TRUE, statusCode |-> status, body |-> b]

\* the callback without the branch on the status code
RequestCallback_ErrorOnly(r) ==
    IF r.error # "" THEN [state |-> "rejected", value |-> [t |-> "error", v |-> r.error]]
    ELSE IF Falsy(r.body) \/ Falsy(Get(r.body, "result"))
            \/ Falsy(Get(Get(r.body, "result"), "data"))
         THEN [state |-> "resolved", value |-> Null]
    ELSE [state |-> "resolved", value |-> Get(Get(r.body, "result"), "data")]

\* the callback of request: how the promise settles
RequestCallback(r) ==
    IF r.error # "" THEN [state |-> "rejected", value |-> [t |-> "error", v |-> r.error]]
    ELSE IF r.response /\ (r.statusCode < 200 \/ r.statusCode > 299)
         THEN [state |-> "rejected", value |-> [t |-> "status", v |-> r.statusCode]]
    ELSE IF Falsy(r.body) \/ Falsy(Get(r.body, "result"))
            \/ Falsy(Get(Get(r.body, "result"), "data"))
         THEN [state |-> "resolved", value |-> Null]
    ELSE [state |-> "resolved", value |-> Get(Get(r.body, "result"), "data")]

-----------------------------------------------------------------------------
(* Lookup harness: one call of getDetails and the answer to its request *)

AttemptRecord == Obj([course_id |-> Str(<<"c", "1">>), trainee_id |-> Str(<<"t", "1">>)])
PlainRecord == Obj([account_id |-> Str(<<"x", "1">>)])

LookupIds == {Undefined, Null, Str(<<>>), Str(<<"a", "1">>), Str(<<"u", "1">>)}

ResultOf(data) == Obj([result |-> Obj([data |-> data])])

LookupBodies ==
    { Undefined, Null, Str(<<>>), Obj(<<>>),
      Obj([error |-> Obj([code |-> Num(<<"4", "0", "4">>)])]),
      Obj([result |-> Null]), Obj([result |-> Obj(<<>>)]),
      ResultOf(Null), ResultOf(Str(<<>>)),
      ResultOf(AttemptRecord), ResultOf(PlainRecord) }

LookupStatuses == {199, 200, 204, 299, 300, 404, 500}

LookupResponses ==
    {ErrorResponse(e) : e \in {"ECONNREFUSED", "ETIMEDOUT", "ESOCKETTIMEDOUT"}}
    \cup {HttpResponse(s, b) : s \in LookupStatuses, b \in LookupBodies}

NoResponse == [error |-> "", response |-> FALSE, statusCode |-> 0, body |-> Undefined]
NoPromise == [type |-> "", id |-> Undefined, state |-> "none"]
NoOutcome == [state |-> "none", value |-> Undefined]

LookupIdle ==
    /\ lType = "attempt"
    /\ lId = Undefined
    /\ lPromise = NoPromise
    /\ lCalls = <<>>
    /\ lResponse = NoResponse
    /\ lOutcome = NoOutcome

\* getDetails(lType, lId)
LookupCall ==
    /\ lPromise = NoPromise
    /\ lPromise' = getDetails(lType, lId).promise
    /\ lCalls' = lCalls \o getDetails(lType, lId).requests
    /\ lOutcome' = IF lPromise'.state = "resolved"
                   THEN [state |-> "resolved", value |-> Null]
                   ELSE lOutcome
    /\ UNCHANGED <<lType, lId, lResponse>>

\* the request's callback runs
LookupAnswer(r) ==
    /\ lPromise.state = "waiting"
    /\ lOutcome = NoOutcome
    /\ lResponse' = r
    /\ lOutcome' = RequestCallback(r)
    /\ UNCHANGED <<lType, lId, lPromise, lCalls>>

-----------------------------------------------------------------------------
(* The reader, hydrateAndIndex and indexToElastic *)

MaxMsgs == 2

MsgIds == 1..MaxMsgs

TypeProgress == <<"P", "R", "O", "G", "R", "E", "S", "S">>

Event(attemptId, type, ts) ==
    Obj([ id |-> Str(<<"e", "1">>), attempt_id |-> Str(attemptId),
          progress |-> Num(<<"0", ".", "6", "3">>), score |-> Num(<<"0", ".", "9", "6">>),
          timestamp |-> Str(ts), type |-> Str(type), user_id |-> Str(<<"u", "1">>) ])

\* another event, without an attempt and without a user (the empty string is
\* a string to the schema), whose timestamp is written with the lowercase
\* separator that date-time admits
EventLower ==
    Put(Put(Event(<<>>, TypeProgress, TsLower), "id", Str(<<"e", "2">>)),
        "user_id", Str(<<>>))

\* the payloads NSQ delivers, each named by a token: text that is no JSON, the
\* JSON text of a number, and the JSON texts of five events
Payloads == {"garbage", "number", "foo", "extra", "event", "lower"}

\* JSON.parse(msg.body.toString()): the value a payload decodes to; a payload
\* that is no JSON text throws
JSONParse(p) ==
    CASE p = "number" -> [threw |-> FALSE, value |-> Num(<<"4", "2">>)]
      [] p = "foo" -> [threw |-> FALSE, value |-> Event(<<"a", "1">>, TypeFOO, TsZulu)]
      [] p = "extra" ->
           [threw |-> FALSE,
            value |-> Put(Event(<<"a", "1">>, TypeProgress, TsZulu), "bad_key", Str(TsBad))]
      [] p = "event" -> [threw |-> FALSE, value |-> Event(<<"a", "1">>, TypeProgress, TsZulu)]
      [] p = "lower" -> [threw |-> FALSE, value |-> EventLower]
      [] OTHER -> [threw |-> TRUE, value |-> Undefined]

\* s.split(sep)[0]: what comes before the first sep, all of s when it has none
RECURSIVE SplitFirst(_, _)
SplitFirst(s, sep) ==
    IF s = <<>> \/ Head(s) = sep THEN <<>> ELSE <<Head(s)>> \o SplitFirst(Tail(s), sep)

\* the argument of elasticClient.create (the random document id is left out)
CreateParams(msg) ==
    [ index |-> config.elastic.indexprefix \o SplitFirst(Get(msg, "timestamp").v, "T"),
      type |-> config.elastic.type,
      body |-> msg ]

\* the user stage keyed by the trainee of the attempt
StageKey_UserFromTrainee(type) ==
    CASE type = "attempt" -> "attempt_id"
      [] type = "course" -> "course_id"
      [] type = "trainee" -> "trainee_id"
      [] type = "user" -> "trainee_id"

\* the message field a stage's lookup is keyed by
StageKey(type) ==
    CASE type = "attempt" -> "attempt_id"
      [] type = "course" -> "course_id"
      [] type = "trainee" -> "trainee_id"
      [] type = "user" -> "user_id"

\* what the innermost then of a stage starts: the next lookup, or the write
NextStage(type) ==
    CASE type = "attempt" -> "course"
      [] type = "course" -> "trainee"
      [] type = "trainee" -> "user"
      [] type = "user" -> "index"

\* the user lookup started beside the attempt lookup
FirstStages_Parallel == <<"attempt", "user">>

\* the stages hydrateAndIndex starts synchronously
FirstStages == <<"attempt">>

\* the attempt handler without the copies of course_id and trainee_id
OnResult_NoKeys(msg, type, result) ==
    IF Falsy(result) THEN msg ELSE Put(msg, type, result)

\* handlers that merge whatever the lookup resolved to, null included
OnResult_Unguarded(msg, type, result) ==
    IF type = "attempt"
    THEN Put(Put(Put(msg, "attempt", result),
                 "course_id", Get(result, "course_id")),
             "trainee_id", Get(result, "trainee_id"))
    ELSE Put(msg, type, result)

\* the handler of the user stage forgets its result
OnResult_UserSkipped(msg, type, result) ==
    IF Falsy(result) \/ type = "user" THEN msg
    ELSE IF type = "attempt"
         THEN Put(Put(Put(msg, "attempt", result),
                      "course_id", Get(result, "course_id")),
                  "trainee_id", Get(result, "trainee_id"))
    ELSE Put(msg, type, result)

\* the fulfilment handler of a stage
OnResult(msg, type, result) ==
    IF Falsy(result) THEN msg
    ELSE IF type = "attempt"
         THEN Put(Put(Put(msg, "attempt", result),
                      "course_id", Get(result, "course_id")),
                  "trainee_id", Get(result, "trainee_id"))
    ELSE Put(msg, type, result)

\* a first then without the rejection handler: the rejection passes to the
\* chained then, whose fulfilment handler does not run
ThenHandlers_NoRejectionHandler(msg, type, outcome) ==
    IF outcome.state = "resolved"
    THEN [msg |-> OnResult(msg, type, outcome.value), chained |-> TRUE]
    ELSE [msg |-> msg, chained |-> FALSE]

\* the two handlers of a stage's first then: the fulfilment handler merges the
\* result, the rejection handler logs; both return, so the chained then runs
ThenHandlers(msg, type, outcome) ==
    IF outcome.state = "resolved"
    THEN [msg |-> OnResult(msg, type, outcome.value), chained |-> TRUE]
    ELSE [msg |-> msg, chained |-> TRUE]

\* how a settled call of getDetails is recorded
OutcomeKind(outcome) ==
    IF outcome.state = "rejected" THEN "failed"
    ELSE IF Falsy(outcome.value) THEN "none" ELSE "record"

PipelineIdle ==
    /\ delivered = 0
    /\ crashed = FALSE
    /\ body = [i \in MsgIds |-> ""]
    /\ pc = [i \in MsgIds |-> "queued"]
    /\ fullMessage = [i \in MsgIds |-> Undefined]
    /\ pending = [i \in MsgIds |-> {}]
    /\ invoked = [i \in MsgIds |-> <<>>]
    /\ calls = [i \in MsgIds |-> <<>>]
    /\ outcomes = [i \in MsgIds |-> <<>>]
    /\ acked = [i \in MsgIds |-> 0]
    /\ writes = [i \in MsgIds |-> <<>>]
    /\ wres = [i \in MsgIds |-> <<>>]

\* a pipeline that holds the event loop until its lookups have ended
MicrotaskQueued_WhilePending == \E i \in MsgIds : pending[i] # {}

\* a promise reaction is queued. The event loop runs the queued reactions
\* before it takes the next network event (a message of NSQ, the answer to a
\* request, the answer of Elastic)
MicrotaskQueued == \E i \in MsgIds : \E q \in pending[i] : q.state = "resolved"

\* the requests of a sequence of calls of getDetails, in order
RECURSIVE RequestsOf(_)
RequestsOf(cs) == IF cs = <<>> THEN <<>> ELSE Head(cs).requests \o RequestsOf(Tail(cs))

\* getDetails is called for the stages `order` of message i, whose event is msg;
\* `left` are the promises of the message that stay unsettled
StartStages(i, msg, order, left) ==
    LET started == [k \in 1..Len(order) |-> getDetails(order[k], Get(msg, StageKey(order[k])))]
    IN  /\ pending' = [pending EXCEPT ![i] = left \cup {started[k].promise : k \in 1..Len(order)}]
        /\ invoked' = [invoked EXCEPT ![i] =
               @ \o [k \in 1..Len(order) |-> [type |-> order[k], id |-> started[k].promise.id]]]
        /\ calls' = [calls EXCEPT ![i] = @ \o RequestsOf(started)]

\* transformMessage without the check
transformMessage_Always(msg) == TRUE

\* transformMessage(msg): whether it calls hydrateAndIndex(msg)
transformMessage(msg) == isIndexableMessage(msg)

\* msg.finish() in the branch of the dropped messages only
FinishCalls_DroppedOnly(parsed) ==
    IF parsed.threw \/ isIndexableMessage(parsed.value) THEN 0 ELSE 1

\* the calls of msg.finish() the message handler makes: the statement follows
\* transformMessage(JSON.parse(...)), so an exception of JSON.parse skips it
FinishCalls(parsed) == IF parsed.threw THEN 0 ELSE 1

\* one working copy for all the calls of hydrateAndIndex (a variable of the
\* module in place of the const of the function)
WorkingCopy_Shared(i) == 1

\* const fullMessage = msg: the object the handlers of message i read and
\* write is the one decoded from the payload of message i
WorkingCopy(i) == i

\* the reader emits the next message when none is in flight (nsq.Reader is
\* created without maxInFlight, so one message at a time may be unfinished)
ReaderReady == \A i \in 1..delivered : acked[i] > 0

\* the handler of the reader's message event:
\*   transformMessage(JSON.parse(msg.body.toString())); msg.finish();
\* An exception of JSON.parse leaves the handler; the file installs nothing
\* that catches it, and Node terminates a process on an uncaught exception.
Deliver(p) ==
    /\ ~crashed
    /\ ~MicrotaskQueued
    /\ ReaderReady
    /\ delivered < MaxMsgs
    /\ LET i == delivered + 1
           parsed == JSONParse(p)
       IN  /\ delivered' = i
           /\ body' = [body EXCEPT ![i] = p]
           /\ acked' = [acked EXCEPT ![i] = @ + FinishCalls(parsed)]
           /\ crashed' = parsed.threw
           /\ IF parsed.threw
              THEN /\ pc' = [pc EXCEPT ![i] = "threw"]
                   /\ UNCHANGED <<fullMessage, pending, invoked, calls>>
              ELSE IF transformMessage(parsed.value)
              THEN /\ pc' = [pc EXCEPT ![i] = "hydrating"]
                   /\ fullMessage' = [fullMessage EXCEPT ![WorkingCopy(i)] = parsed.value]
                   /\ StartStages(i, parsed.value, FirstStages, {})
              ELSE /\ pc' = [pc EXCEPT ![i] = "dropped"]
                   /\ UNCHANGED <<fullMessage, pending, invoked, calls>>
           /\ UNCHANGED <<outcomes, writes, wres>>

\* promise q of message i settles with `outcome`: the stage's handlers run, then
\* the chained then starts the next stage or hands the event to indexToElastic
Settle(i, q, outcome) ==
    LET w == WorkingCopy(i)
        h == ThenHandlers(fullMessage[w], q.type, outcome)
        next == NextStage(q.type)
    IN  /\ outcomes' = [outcomes EXCEPT ![i] = Append(@, [type |-> q.type, kind |-> OutcomeKind(outcome)])]
        /\ fullMessage' = [fullMessage EXCEPT ![w] = h.msg]
        /\ IF ~h.chained
           THEN /\ pending' = [pending EXCEPT ![i] = @ \ {q}]
                /\ UNCHANGED <<pc, invoked, calls, writes>>
           ELSE IF next = "index"
           THEN /\ pending' = [pending EXCEPT ![i] = @ \ {q}]
                /\ writes' = [writes EXCEPT ![i] = Append(@, CreateParams(h.msg))]
                /\ pc' = [pc EXCEPT ![i] = "indexing"]
                /\ UNCHANGED <<invoked, calls>>
           ELSE /\ StartStages(i, h.msg, <<next>>, pending[i] \ {q})
                /\ UNCHANGED <<pc, writes>>
        /\ UNCHANGED <<delivered, crashed, body, acked, wres>>

\* the reactions of a promise that getDetails returned resolved (a falsy id)
ImmediateResolves(i, q) ==
    /\ ~crashed
    /\ q \in pending[i]
    /\ q.state = "resolved"
    /\ Settle(i, q, [state |-> "resolved", value |-> Null])

\* the callback of the request of promise q runs with r, then the promise's reactions
LookupCompletes(i, q, r) ==
    /\ ~crashed
    /\ ~MicrotaskQueued
    /\ q \in pending[i]
    /\ q.state = "waiting"
    /\ Settle(i, q, RequestCallback(r))

\* a callback of create that makes the write again when it gets an error
WriteFails_Retries(i) ==
    /\ ~crashed
    /\ ~MicrotaskQueued
    /\ Len(wres[i]) < Len(writes[i])
    /\ wres' = [wres EXCEPT ![i] = Append(@, "logged")]
    /\ writes' = [writes EXCEPT ![i] = Append(@, writes[i][1])]
    /\ UNCHANGED <<delivered, crashed, body, pc, fullMessage, pending, invoked, calls,
                   outcomes, acked>>

\* the callback of elasticClient.create runs with an error, which it logs (run
\* without an error it does nothing)
WriteFails(i) ==
    /\ ~crashed
    /\ ~MicrotaskQueued
    /\ Len(wres[i]) < Len(writes[i])
    /\ wres' = [wres EXCEPT ![i] = Append(@, "logged")]
    /\ UNCHANGED <<delivered, crashed, body, pc, fullMessage, pending, invoked, calls,
                   outcomes, acked, writes>>

-----------------------------------------------------------------------------
(* Validator harness: isIndexableMessage applied to one decoded value *)

InitValidate ==
    /\ vMsg \in Messages
    /\ vResult = "pending"
    /\ LookupIdle
    /\ PipelineIdle

Validate ==
    /\ vResult = "pending"
    /\ vResult' = IF isIndexableMessage(vMsg) THEN "accepted" ELSE "rejected"
    /\ UNCHANGED <<vMsg, lookupVars, pipelineVars>>

NextValidate == Validate

SpecValidate == InitValidate /\ [][NextValidate]_vars

InitLookup ==
    /\ lType \in {Types[i] : i \in 1..4}
    /\ lId \in LookupIds
    /\ lPromise = NoPromise
    /\ lCalls = <<>>
    /\ lResponse = NoResponse
    /\ lOutcome = NoOutcome
    /\ vMsg = Null
    /\ vResult = "pending"
    /\ PipelineIdle

NextLookup ==
    \/ LookupCall /\ UNCHANGED <<validatorVars, pipelineVars>>
    \/ \E r \in LookupResponses : LookupAnswer(r) /\ UNCHANGED <<validatorVars, pipelineVars>>

SpecLookup == InitLookup /\ [][NextLookup]_vars

-----------------------------------------------------------------------------
(* The transformer: payloads from NSQ, answers from BrainSpark and Elastic *)

\* the record the BrainSpark API answers a request with
RecordFor(request) ==
    IF request.json.method = config.brainspark.method["attempt"]
    THEN AttemptRecord
    ELSE Obj([id |-> request.json.params.id])

\* the answers to a request: a timeout, an error status, no such record, the record
ResponsesTo(request) ==
    { ErrorResponse("ETIMEDOUT"), HttpResponse(500, Undefined), HttpResponse(200, Obj(<<>>)),
      HttpResponse(200, ResultOf(RecordFor(request))) }

Init ==
    /\ PipelineIdle
    /\ LookupIdle
    /\ vMsg = Null
    /\ vResult = "pending"

Next ==
    \/ \E p \in Payloads : Deliver(p) /\ UNCHANGED <<validatorVars, lookupVars>>
    \/ \E i \in MsgIds : \E q \in pending[i] :
          ImmediateResolves(i, q) /\ UNCHANGED <<validatorVars, lookupVars>>
    \/ \E i \in MsgIds : \E q \in {w \in pending[i] : w.state = "waiting"} :
          \E r \in ResponsesTo(RequestOptions(q.type, q.id)) :
             LookupCompletes(i, q, r) /\ UNCHANGED <<validatorVars, lookupVars>>
    \/ \E i \in MsgIds : WriteFails(i) /\ UNCHANGED <<validatorVars, lookupVars>>

Spec == Init /\ [][Next]_vars

\* the reactions of message i that are queued
Microtask(i) ==
    \E q \in pending[i] : ImmediateResolves(i, q) /\ UNCHANGED <<validatorVars, lookupVars>>

\* the event loop runs every queued reaction
SpecLive == Spec /\ \A i \in MsgIds : WF_vars(Microtask(i))

-----------------------------------------------------------------------------
(* The claims *)

\* the payloads by what the handler makes of them
Undecodable == {p \in Payloads : JSONParse(p).threw}
Rejected == {p \in Payloads \ Undecodable : ~isIndexableMessage(JSONParse(p).value)}
Accepted == {p \in Payloads \ Undecodable : isIndexableMessage(JSONParse(p).value)}

Delivered(i) == i <= delivered
Decoded(i) == Delivered(i) /\ body[i] \notin Undecodable
Indexable(i) == Delivered(i) /\ body[i] \in Accepted
Handed(i) == writes[i] # <<>>
Kinds(i) == [k \in 1..Len(outcomes[i]) |-> outcomes[i][k].kind]
HasFailure(i) == \E k \in 1..Len(outcomes[i]) : outcomes[i][k].kind = "failed"

\* C1: a lookup that fails at a stage stops nothing. For every message one of
\* whose lookups failed: while fewer than four stages have ended, the stage
\* after the last ended one has been started (getDetails was called for it)
\* and nothing is written yet; once the four stages have ended, getDetails
\* was called for attempt, course, trainee and user, and the event was handed
\* to elasticClient.create exactly once.
C1_FailureStopsNothing ==
    \A i \in MsgIds : HasFailure(i) =>
        IF Len(outcomes[i]) < 4
        THEN Len(invoked[i]) = Len(outcomes[i]) + 1 /\ pending[i] # {} /\ writes[i] = <<>>
        ELSE /\ [k \in 1..Len(invoked[i]) |-> invoked[i][k].type] = Types
             /\ Len(writes[i]) = 1

\* a message whose course lookup alone failed and that was written once
C1_Witness ==
    \E i \in MsgIds : Kinds(i) = <<"record", "failed", "record", "record">> /\ Len(writes[i]) = 1

\* C2: a payload that decodes is acknowledged exactly once, by the end of its
\* handler and whatever follows: a drop, any outcomes of the lookups, a write
\* that fails. No message is acknowledged twice or before it is delivered.
C2_AckedExactlyOnce ==
    \A i \in MsgIds :
        /\ Decoded(i) => acked[i] = 1
        /\ acked[i] <= 1
        /\ ~Delivered(i) => acked[i] = 0

\* an acknowledged message with a failed lookup, a lookup without a record and
\* a write that failed, and an acknowledged message that was dropped
C2_Witness ==
    /\ \E i \in MsgIds :
        /\ acked[i] = 1 /\ wres[i] # <<>>
        /\ \E k \in 1..4 : Kinds(i)[k] = "failed"
        /\ \E k \in 1..4 : Kinds(i)[k] = "none"
    /\ \E i \in MsgIds : acked[i] = 1 /\ pc[i] = "dropped"

\* C3 (as claimed): a payload that does not decode causes no lookup and no
\* write, and its message is acknowledged.
C3_UndecodableAcked ==
    \A i \in MsgIds : (Delivered(i) /\ body[i] \in Undecodable) =>
        calls[i] = <<>> /\ writes[i] = <<>> /\ acked[i] = 1

\* C4: a message isIndexableMessage rejects never has getDetails called, a
\* request sent or a write made for it.
C4_RejectedUntouched ==
    \A i \in MsgIds : (Delivered(i) /\ body[i] \in Rejected) =>
        invoked[i] = <<>> /\ pending[i] = {} /\ calls[i] = <<>> /\ writes[i] = <<>>

\* both messages delivered, one rejected for its type FOO and untouched, the
\* other one written
C4_Witness ==
    /\ delivered = MaxMsgs
    /\ \E i \in MsgIds : body[i] = "foo" /\ pc[i] = "dropped" /\ calls[i] = <<>>
    /\ \E i \in MsgIds : Handed(i)

\* the request of stage `type` of message i is awaiting its answer
Outstanding(i, type) == \E q \in pending[i] : q.type = type /\ q.state = "waiting"

\* C5: if each lookup sent for a message is answered in the end (a response,
\* an error, the timeout), so that no request of the message stays without
\* its answer for ever, an indexable message is handed to
\* elasticClient.create in the end, whatever the four outcomes are.
C5_EventuallyHanded ==
    \A i \in MsgIds :
        (\A k \in 1..4 : []<>~Outstanding(i, Types[k]))
            => (Indexable(i) ~> Handed(i))

\* a message handed over after a failed lookup, a lookup without a record and
\* a lookup with a record
C5_Witness ==
    \E i \in MsgIds :
        /\ Handed(i)
        /\ \E k \in 1..4 : Kinds(i)[k] = "failed"
        /\ \E k \in 1..4 : Kinds(i)[k] = "none"
        /\ \E k \in 1..4 : Kinds(i)[k] = "record"

\* C6: once the attempt lookup of a message has resolved to a record,
\* getDetails is called for the course with the record's course_id and the
\* request carries it; once the course stage has ended, the same holds of
\* the trainee and the record's trainee_id.
C6_KeysFromAttempt ==
    \A i \in MsgIds : (Len(outcomes[i]) >= 1 /\ outcomes[i][1].kind = "record") =>
        LET rec == RecordFor(calls[i][1])
        IN  /\ Len(invoked[i]) >= 2
            /\ invoked[i][2] = [type |-> "course", id |-> Get(rec, "course_id")]
            /\ calls[i][2] = RequestOptions("course", Get(rec, "course_id"))
            /\ Len(outcomes[i]) >= 2 =>
                /\ Len(invoked[i]) >= 3
                /\ invoked[i][3] = [type |-> "trainee", id |-> Get(rec, "trainee_id")]
                /\ calls[i][3] = RequestOptions("trainee", Get(rec, "trainee_id"))

\* the course and the trainee were looked up with the ids of the attempt record
C6_Witness ==
    \E i \in MsgIds :
        /\ outcomes[i] # <<>> /\ outcomes[i][1].kind = "record"
        /\ Len(calls[i]) >= 3
        /\ calls[i][2].json.params.id = Str(<<"c", "1">>)
        /\ calls[i][3].json.params.id = Str(<<"t", "1">>)

\* C7: the stages of a message run in the order attempt, course, trainee,
\* user: a stage is started only when the one before has ended, at most one
\* promise of getDetails (so at most one request) is unsettled at a time, and
\* the write is made only when the four stages have ended.
C7_FixedOrder ==
    \A i \in MsgIds :
        /\ Cardinality(pending[i]) <= 1
        /\ Len(invoked[i]) <= 4
        /\ \A k \in 1..Len(invoked[i]) : invoked[i][k].type = Types[k]
        /\ \A k \in 1..Len(outcomes[i]) : outcomes[i][k].type = Types[k]
        /\ Len(outcomes[i]) <= Len(invoked[i])
        /\ Len(invoked[i]) <= Len(outcomes[i]) + 1
        /\ Handed(i) => Len(outcomes[i]) = 4 /\ pending[i] = {}

\* a message written after four requests
C7_Witness == \E i \in MsgIds : Handed(i) /\ Len(calls[i]) = 4

\* C8: getDetails called with the empty string or with undefined, for any
\* type, sends no request and resolves to null.
C8_NoIdNoCall ==
    (lPromise # NoPromise /\ lId \in {Str(<<>>), Undefined}) =>
        lCalls = <<>> /\ lOutcome = [state |-> "resolved", value |-> Null]

\* getDetails('trainee', '') has resolved
C8_Witness ==
    lType = "trainee" /\ lId = Str(<<>>) /\ lOutcome = [state |-> "resolved", value |-> Null]

\* the timestamps of the harness that are date-times (RFC 3339)
DateTimes == {TsZulu, TsOffset, TsLower}

\* a record of at most seven keys with the seven fields of the schema, typed
\* as the schema says, whose type is not FOO
WellFormedEvent(m) ==
    /\ m.t = "obj"
    /\ Cardinality(DOMAIN m.v) <= 7
    /\ \A k \in {"id", "attempt_id", "user_id", "type", "timestamp"} :
          k \in DOMAIN m.v /\ m.v[k].t = "str"
    /\ \A k \in {"progress", "score"} : k \in DOMAIN m.v /\ m.v[k].t = "num"
    /\ m.v["timestamp"].v \in DateTimes
    /\ m.v["type"].v # <<"F", "O", "O">>

\* C9: isIndexableMessage accepts exactly the records of at most seven keys
\* that carry string id, attempt_id, user_id and type, numeric progress and
\* score and a date-time timestamp, and whose type is not FOO.
C9_AcceptsExactlyEvents ==
    vResult # "pending" => (vResult = "accepted" <=> WellFormedEvent(vMsg))

\* an event with a fraction and an offset in its timestamp and an empty
\* attempt_id was accepted
C9_Witness ==
    /\ vResult = "accepted"
    /\ Get(vMsg, "timestamp") = Str(TsOffset)
    /\ Get(vMsg, "attempt_id") = Str(<<>>)

\* the body of a response carries a result.data that is not empty
HasData(b) ==
    /\ b.t = "obj" /\ "result" \in DOMAIN b.v
    /\ b.v["result"].t = "obj" /\ "data" \in DOMAIN b.v["result"].v
    /\ b.v["result"].v["data"] \notin {Null, Str(<<>>)}

\* C10: a lookup with a non-empty id ends in one of three ways, which the
\* answer decides: rejected on an error (a timeout is one) or a status
\* outside 200..299; resolved to null on a 2xx answer without a result.data;
\* resolved to result.data otherwise.
C10_ThreeOutcomes ==
    (lOutcome # NoOutcome /\ ~Falsy(lId)) =>
        LET fails == lResponse.error # "" \/ lResponse.statusCode \notin 200..299
        IN  /\ Len(lCalls) = 1
            /\ fails => lOutcome.state = "rejected"
            /\ (~fails /\ ~HasData(lResponse.body)) =>
                  lOutcome = [state |-> "resolved", value |-> Null]
            /\ (~fails /\ HasData(lResponse.body)) =>
                  lOutcome = [state |-> "resolved",
                              value |-> lResponse.body.v["result"].v["data"]]

\* a lookup answered 299 with a record has resolved to the record
C10_Witness ==
    /\ lResponse.statusCode = 299
    /\ lOutcome = [state |-> "resolved", value |-> AttemptRecord]

\* the event each accepted payload decodes to, as it arrives
Ingress == [p \in Accepted |-> JSONParse(p).value]

SchemaKeys == {"id", "attempt_id", "progress", "score", "timestamp", "type", "user_id"}
RecordKeys == {"attempt", "course", "trainee", "user"}
DerivedKeys == RecordKeys \cup {"course_id", "trainee_id"}

\* C11: an indexable message whose four lookups all returned records is
\* written exactly once, and the document has the seven fields of the schema
\* with the values they arrived with, attempt, course, trainee and user
\* holding the records the four requests were answered with, course_id and
\* trainee_id holding those of the attempt record, and no other key.
C11_FullDocument ==
    \A i \in MsgIds : Kinds(i) = <<"record", "record", "record", "record">> =>
        /\ Len(writes[i]) = 1
        /\ LET d == writes[i][1].body
               m == Ingress[body[i]]
               attempt == RecordFor(calls[i][1])
           IN  /\ DOMAIN d.v = SchemaKeys \cup DerivedKeys
               /\ \A k \in SchemaKeys : d.v[k] = m.v[k]
               /\ \A k \in 1..4 : d.v[Types[k]] = RecordFor(calls[i][k])
               /\ d.v["course_id"] = attempt.v["course_id"]
               /\ d.v["trainee_id"] = attempt.v["trainee_id"]

\* an event written with its four records while the other message is in flight
C11_Witness ==
    \E i \in MsgIds :
        /\ Kinds(i) = <<"record", "record", "record", "record">>
        /\ writes[i] # <<>>
        /\ writes[i][1].body.v["user"] = Obj([id |-> Str(<<"u", "1">>)])
        /\ \E j \in MsgIds \ {i} : pending[j] # {}

\* C12 (as claimed): the index of every write is the configured prefix
\* followed by the part of the timestamp the event arrived with that comes
\* before its first 'T' (the calendar date), whatever the lookups returned.
C12_IndexIsPrefixAndDate ==
    \A i \in MsgIds : \A w \in 1..Len(writes[i]) :
        LET ts == Ingress[body[i]].v["timestamp"].v
        IN  \E n \in 1..Len(ts) :
               /\ ts[n] = "T"
               /\ \A k \in 1..(n - 1) : ts[k] # "T"
               /\ writes[i][w].index = <<"e", "v", "e", "n", "t", "s", "-">> \o SubSeq(ts, 1, n - 1)

\* C13: the handler does not wait for the pipeline. The step that
\* acknowledges an indexable message is the one that starts hydrateAndIndex
\* (the first call of getDetails is made in it), and no outcome of a lookup
\* has been handled and nothing written by its end; every step that handles
\* an outcome of the message or makes its write finds it acknowledged.
C13_AckBeforePipeline ==
    [][ \A i \in MsgIds :
          /\ (acked'[i] # acked[i] /\ body'[i] \in Accepted) =>
                /\ invoked[i] = <<>> /\ Len(invoked'[i]) = 1
                /\ outcomes'[i] = <<>> /\ writes'[i] = <<>>
          /\ (outcomes'[i] # outcomes[i] \/ writes'[i] # writes[i]) =>
                acked[i] = 1 /\ acked'[i] = 1
          /\ (fullMessage'[i] # fullMessage[i] /\ fullMessage[i] # Undefined) =>
                acked[i] = 1 ]_vars

\* two acknowledged messages none of whose outcomes is handled yet: the
\* request of one is unanswered, the promise of the other resolved at once
C13_Witness ==
    /\ \E i \in MsgIds :
          /\ acked[i] = 1 /\ outcomes[i] = <<>>
          /\ \E q \in pending[i] : q.state = "waiting"
    /\ \E i \in MsgIds :
          /\ acked[i] = 1 /\ outcomes[i] = <<>>
          /\ \E q \in pending[i] : q.state = "resolved"

\* C14: nothing is retried. In every state, for every message: getDetails was
\* called at most once for each stage, so at most four requests went out, and
\* at most one write was made, also after a lookup failed; and once the
\* callback of the write has reported an error, no step calls getDetails,
\* sends a request, makes a write or changes the event of that message.
C14_NothingRetried ==
    /\ [](\A i \in MsgIds :
            /\ \A a, b \in 1..Len(invoked[i]) : invoked[i][a].type = invoked[i][b].type => a = b
            /\ Len(calls[i]) <= Len(invoked[i]) /\ Len(calls[i]) <= 4
            /\ Len(writes[i]) <= 1
            /\ Len(wres[i]) <= Len(writes[i]))
    /\ [][ \A i \in MsgIds : wres[i] # <<>> =>
              /\ invoked'[i] = invoked[i] /\ calls'[i] = calls[i]
              /\ pending'[i] = pending[i] /\ writes'[i] = writes[i]
              /\ wres'[i] = wres[i] /\ fullMessage'[i] = fullMessage[i]
              /\ acked'[i] = acked[i] ]_vars

\* a message one of whose lookups failed and whose write failed, with a later
\* message still being handled after it
C14_Witness ==
    \E i \in MsgIds :
        /\ HasFailure(i) /\ Len(calls[i]) = 4 /\ wres[i] = <<"logged">>
        /\ \E j \in MsgIds : j > i /\ Len(outcomes[j]) >= 2 /\ writes[j] = <<>>

\* C15 (as claimed): a payload that fails to decode affects nothing but
\* itself. In every state that follows such a payload the service goes on as
\* it would without it: the reader can hand the next payload to the handler,
\* and the lookups in flight for the other messages can still be answered.
C15_DecodeFailureContained ==
    (\E i \in 1..delivered : body[i] \in Undecodable) =>
        /\ (delivered < MaxMsgs /\ ~MicrotaskQueued) => ENABLED Deliver("event")
        /\ \A j \in MsgIds : \A q \in pending[j] :
              (q.state = "waiting" /\ ~MicrotaskQueued) =>
                  ENABLED LookupCompletes(j, q, ErrorResponse("ETIMEDOUT"))

\* the event after stage k of a message handled alone: the stage's record is
\* merged when the lookup returned one
AloneStep(msg, k, kind) ==
    IF kind = "record"
    THEN OnResult(msg, Types[k], RecordFor(RequestOptions(Types[k], Get(msg, StageKey(Types[k])))))
    ELSE msg

\* the event of a message handled alone whose lookups end as `kinds` says
RECURSIVE Alone(_, _, _)
Alone(msg, kinds, k) ==
    IF k > Len(kinds) THEN msg ELSE Alone(AloneStep(msg, k, kinds[k]), kinds, k + 1)

\* the ways the lookups of a message can have ended so far
KindSeqs == UNION {[1..n -> {"record", "none", "failed"}] : n \in 0..4}

\* the event of each accepted payload handled alone, by the outcomes so far
AloneEvent == [p \in Accepted |-> [kinds \in KindSeqs |-> Alone(Ingress[p], kinds, 1)]]

\* C16: the pipelines of the messages are isolated, however their steps
\* interleave. The event of every indexable message is, at each moment, the
\* one it would be had the message been handled alone with the same outcomes
\* of its lookups; the document written for it is that event; its seven
\* fields are those of its own payload, and it has no key besides them and
\* the keys its own stages added.
C16_Isolated ==
    \A i \in MsgIds : Indexable(i) =>
        LET m == Ingress[body[i]]
            alone == AloneEvent[body[i]][Kinds(i)]
        IN  /\ fullMessage[i] = alone
            /\ \A k \in SchemaKeys : fullMessage[i].v[k] = m.v[k]
            /\ DOMAIN fullMessage[i].v \subseteq SchemaKeys \cup DerivedKeys
            /\ \A w \in 1..Len(writes[i]) : writes[i][w].body = alone

\* the later of two different events is written, with its own seven fields
\* and nothing else, while the earlier one, whose attempt record has arrived,
\* is still being enriched
C16_Witness ==
    \E i, j \in MsgIds :
        /\ j < i /\ body[i] = "lower" /\ body[j] = "event"
        /\ writes[i] # <<>>
        /\ writes[i][1].body.v["id"] = Str(<<"e", "2">>)
        /\ DOMAIN writes[i][1].body.v = SchemaKeys
        /\ pending[j] # {} /\ "attempt" \in DOMAIN fullMessage[j].v

\* a reaction of a promise is waiting to run
ReactionWaits == \E i \in MsgIds : \E q \in pending[i] : q.state = "resolved"

\* C17: no message blocks another. While the process runs and no reaction of
\* a promise is waiting, whatever lookups are unanswered: no message is
\* left unfinished in the reader, the next payload can be handed to the
\* handler, every unanswered lookup of every message can get its answer
\* handled, and every write can get its answer handled.
C17_NoBlocking ==
    (~crashed /\ ~ReactionWaits) =>
        /\ \A i \in 1..delivered : acked[i] = 1
        /\ delivered < MaxMsgs => ENABLED Deliver("event")
        /\ \A j \in MsgIds : \A q \in pending[j] :
              ENABLED LookupCompletes(j, q, HttpResponse(500, Undefined))
        /\ \A j \in MsgIds : Len(wres[j]) < Len(writes[j]) => ENABLED WriteFails(j)

\* the later of two events is delivered, acknowledged, enriched and written
\* while the attempt lookup of the earlier one is still unanswered
C17_Witness ==
    \E i, j \in MsgIds :
        /\ i < j /\ body[i] = "event" /\ body[j] = "event"
        /\ Outstanding(i, "attempt") /\ outcomes[i] = <<>>
        /\ acked[j] = 1 /\ Kinds(j) = <<"record", "record", "record", "record">>
        /\ Len(writes[j]) = 1

\* C18: the user stage does not depend on the attempt chain. For every
\* indexable message, once the trainee stage has ended, whatever the first
\* three outcomes were: getDetails was called for the user with the user_id
\* the event arrived with, and the last request carries it (an empty user_id
\* sends none); once the user stage has ended, the event holds under user the
\* record that request was answered with if there was one, and no user
\* otherwise.
C18_UserIndependent ==
    \A i \in MsgIds : (Indexable(i) /\ Len(outcomes[i]) >= 3) =>
        LET u == Ingress[body[i]].v["user_id"]
        IN  /\ Len(invoked[i]) = 4
            /\ invoked[i][4] = [type |-> "user", id |-> u]
            /\ IF Falsy(u)
               THEN \A k \in 1..Len(calls[i]) : calls[i][k].json.params.id # u
               ELSE /\ calls[i] # <<>>
                    /\ calls[i][Len(calls[i])] = RequestOptions("user", u)
            /\ Len(outcomes[i]) = 4 =>
                  IF outcomes[i][4].kind = "record"
                  THEN Get(fullMessage[i], "user") = Obj([id |-> u])
                  ELSE "user" \notin DOMAIN fullMessage[i].v

\* the user record of an event whose attempt lookup failed, and that of an
\* event whose first three lookups returned records
C18_Witness ==
    /\ \E i \in MsgIds :
          /\ Kinds(i) = <<"failed", "none", "none", "record">>
          /\ Get(fullMessage[i], "user") = Obj([id |-> Str(<<"u", "1">>)])
    /\ \E i \in MsgIds :
          /\ Kinds(i) = <<"record", "record", "record", "record">>
          /\ Get(fullMessage[i], "user") = Obj([id |-> Str(<<"u", "1">>)])

AttemptKeys == {"attempt", "course", "trainee", "course_id", "trainee_id"}

\* C19: when the attempt lookup of a message ended without a record (no
\* such attempt, an empty attempt_id, or a failure), getDetails is called
\* for the course and for the trainee with an undefined id, so that the
\* only requests of the message are the one for the attempt and the one for
\* the user; and neither the event nor the document written carries attempt,
\* course, trainee, course_id or trainee_id.
C19_NoAttemptNoChain ==
    \A i \in MsgIds : (outcomes[i] # <<>> /\ outcomes[i][1].kind # "record") =>
        LET m == Ingress[body[i]]
        IN  /\ \A k \in 2..Len(invoked[i]) : k <= 3 => invoked[i][k].id = Undefined
            /\ \A k \in 2..Len(outcomes[i]) : k <= 3 => outcomes[i][k].kind = "none"
            /\ Len(calls[i]) <= 2
            /\ \A k \in 1..Len(calls[i]) :
                  calls[i][k] \in {RequestOptions("attempt", m.v["attempt_id"]),
                                   RequestOptions("user", m.v["user_id"])}
            /\ DOMAIN fullMessage[i].v \cap AttemptKeys = {}
            /\ \A w \in 1..Len(writes[i]) : DOMAIN writes[i][w].body.v \cap AttemptKeys = {}

\* an event written after its attempt lookup failed, and an event written
\* after its attempt lookup found no record
C19_Witness ==
    /\ \E i \in MsgIds :
          /\ Kinds(i) = <<"failed", "none", "none", "record">>
          /\ Len(calls[i]) = 2 /\ Len(writes[i]) = 1
    /\ \E i \in MsgIds :
          /\ body[i] = "event"
          /\ Kinds(i) = <<"none", "none", "none", "record">>
          /\ Len(calls[i]) = 2 /\ Len(writes[i]) = 1

\* C20: with the default configuration, every value isIndexableMessage
\* accepts is a record of exactly the seven keys of the schema, so it
\* carries none of course_id, trainee_id, attempt, course, trainee, user,
\* and its timestamp is a string.
C20_ExactlySevenKeys ==
    vResult = "accepted" =>
        /\ vMsg.t = "obj"
        /\ DOMAIN vMsg.v = SchemaKeys
        /\ DOMAIN vMsg.v \cap DerivedKeys = {}
        /\ vMsg.v["timestamp"].t = "str"

\* an accepted event; and, among the values the validator is given, records
\* of seven keys, one of them foreign, which it must turn down
C20_Witness ==
    /\ vResult = "accepted"
    /\ Cardinality(DOMAIN vMsg.v) = 7
    /\ \E m \in Messages : m.t = "obj" /\ Cardinality(DOMAIN m.v) = 7 /\ DOMAIN m.v # SchemaKeys

====
